---- MODULE Spec2Model ----
(***************************************************************************)
(* The <animated-waves> custom element (src/src/index.ts, and its variant  *)
(* src/test.ts) as a state machine: the element's attribute store, the     *)
(* content of its shadow root, and the lifecycle callbacks that call       *)
(* render().                                                               *)
(*                                                                         *)
(* Strings are sequences of one-character strings, so that parseFloat,     *)
(* parseInt, split, trim and replace work on characters as the code does.  *)
(* Numbers are IEEE doubles abstracted to exact rationals plus NaN and the *)
(* two infinities, with JavaScript's rules for them (x/0, Infinity*0,      *)
(* NaN propagation); rounding error and negative zero are not modelled.    *)
(***************************************************************************)
EXTENDS Integers, Sequences, FiniteSets, TLC

VARIABLES
  variant,    \* which class is registered: "index" (src/src/index.ts) or "test" (src/test.ts)
  attrs,      \* the element's attributes, what this.getAttribute reads
  connected,  \* connectedCallback has run
  shadow,     \* the content of this.shadowRoot (its innerHTML)
  stub,       \* the constant a test has replaced Math.random by, if any
  call        \* the last direct call of a generator method and its result

vars == <<variant, attrs, connected, shadow, stub, call>>

(***************************************************************************)
(* Numbers                                                                 *)
(***************************************************************************)
Abs(n) == IF n < 0 THEN -n ELSE n

RECURSIVE GCD(_, _)
GCD(a, b) == IF b = 0 THEN a ELSE GCD(b, a % b)

\* the rational n/d (d > 0) in lowest terms
Fin(n, d) ==
  LET g == GCD(Abs(n), d)
  IN  [k |-> "fin", n |-> n \div g, d |-> d \div g]

NaN == [k |-> "nan", n |-> 0, d |-> 1]

\* s = 1: Infinity, s = -1: -Infinity
Inf(s) == [k |-> "inf", n |-> s, d |-> 1]

Num(n) == Fin(n, 1)

IsNaN(x) == x.k = "nan"

IsFinite(x) == x.k = "fin"

Sign(x) == IF x.n > 0 THEN 1 ELSE IF x.n < 0 THEN -1 ELSE 0

\* x + y
Add(x, y) ==
  IF IsNaN(x) \/ IsNaN(y) THEN NaN
  ELSE IF x.k = "inf" /\ y.k = "inf" THEN (IF x.n = y.n THEN x ELSE NaN)
  ELSE IF x.k = "inf" THEN x
  ELSE IF y.k = "inf" THEN y
  ELSE Fin(x.n * y.d + y.n * x.d, x.d * y.d)

\* -x
Neg(x) == IF IsNaN(x) THEN NaN ELSE [x EXCEPT !.n = -x.n]

\* x - y
Sub(x, y) == Add(x, Neg(y))

\* x * y
Mul(x, y) ==
  IF IsNaN(x) \/ IsNaN(y) THEN NaN
  ELSE IF x.k = "inf" \/ y.k = "inf"
       THEN (IF Sign(x) * Sign(y) = 0 THEN NaN ELSE Inf(Sign(x) * Sign(y)))
  ELSE Fin(x.n * y.n, x.d * y.d)

\* x / y
Div(x, y) ==
  IF IsNaN(x) \/ IsNaN(y) THEN NaN
  ELSE IF x.k = "inf"
       THEN (IF y.k = "inf" THEN NaN
             ELSE Inf(IF Sign(y) < 0 THEN -Sign(x) ELSE Sign(x)))
  ELSE IF y.k = "inf" THEN Num(0)
  ELSE IF y.n = 0 THEN (IF x.n = 0 THEN NaN ELSE Inf(Sign(x)))
  ELSE Fin(x.n * y.d * Sign(y), x.d * Abs(y.n))

\* x < y (false when either is NaN)
Lt(x, y) ==
  IF IsNaN(x) \/ IsNaN(y) THEN FALSE
  ELSE IF x.k = "inf" THEN x.n < 0 /\ y # x
  ELSE IF y.k = "inf" THEN y.n > 0
  ELSE x.n * y.d < y.n * x.d

\* x <= y (false when either is NaN)
Leq(x, y) == ~IsNaN(x) /\ ~IsNaN(y) /\ (x = y \/ Lt(x, y))

\* Math.max(x, y)
MathMax(x, y) ==
  IF IsNaN(x) \/ IsNaN(y) THEN NaN ELSE IF Lt(x, y) THEN y ELSE x

(***************************************************************************)
(* Strings                                                                 *)
(***************************************************************************)
Digits == <<"0", "1", "2", "3", "4", "5", "6", "7", "8", "9">>

IsDigit(c) == \E i \in 1..Len(Digits) : Digits[i] = c

DigitVal(c) == (CHOOSE i \in 1..Len(Digits) : Digits[i] = c) - 1

Drop(s, n) == SubSeq(s, n + 1, Len(s))

RECURSIVE TrimStart(_)
TrimStart(s) == IF s # <<>> /\ Head(s) = " " THEN TrimStart(Tail(s)) ELSE s

\* the length of the longest prefix of s made of digits
RECURSIVE DigitRun(_)
DigitRun(s) == IF s # <<>> /\ IsDigit(Head(s)) THEN 1 + DigitRun(Tail(s)) ELSE 0

\* the value of a sequence of digits, 0 for the empty one
RECURSIVE DigitsValue(_)
DigitsValue(s) ==
  IF s = <<>> THEN 0
  ELSE 10 * DigitsValue(SubSeq(s, 1, Len(s) - 1)) + DigitVal(s[Len(s)])

RECURSIVE Pow10(_)
Pow10(n) == IF n = 0 THEN 1 ELSE 10 * Pow10(n - 1)

\* parseInt(s) with no radix, for strings without a 0x prefix
parseInt(s) ==
  LET t    == TrimStart(s)
      neg  == t # <<>> /\ Head(t) = "-"
      u    == IF t # <<>> /\ Head(t) \in {"-", "+"} THEN Tail(t) ELSE t
      run  == DigitRun(u)
      v    == DigitsValue(SubSeq(u, 1, run))
  IN  IF run = 0 THEN NaN ELSE Num(IF neg THEN -v ELSE v)

\* parseFloat(s), for strings without an exponent part and other than "Infinity"
parseFloat(s) ==
  LET t     == TrimStart(s)
      neg   == t # <<>> /\ Head(t) = "-"
      u     == IF t # <<>> /\ Head(t) \in {"-", "+"} THEN Tail(t) ELSE t
      irun  == DigitRun(u)
      rest  == Drop(u, irun)
      dot   == rest # <<>> /\ Head(rest) = "."
      frun  == IF dot THEN DigitRun(Tail(rest)) ELSE 0
      ival  == DigitsValue(SubSeq(u, 1, irun))
      fval  == IF dot THEN DigitsValue(SubSeq(Tail(rest), 1, frun)) ELSE 0
      num   == ival * Pow10(frun) + fval
  IN  IF irun = 0 /\ frun = 0 THEN NaN
      ELSE Fin(IF neg THEN -num ELSE num, Pow10(frun))

\* s.split(sep) for a one-character separator
RECURSIVE Split(_, _)
Split(s, sep) ==
  IF \A i \in 1..Len(s) : s[i] # sep THEN <<s>>
  ELSE LET p == CHOOSE i \in 1..Len(s) :
                  s[i] = sep /\ \A j \in 1..(i - 1) : s[j] # sep
       IN  <<SubSeq(s, 1, p - 1)>> \o Split(Drop(s, p), sep)

RECURSIVE TrimEnd(_)
TrimEnd(s) ==
  IF s # <<>> /\ s[Len(s)] = " " THEN TrimEnd(SubSeq(s, 1, Len(s) - 1)) ELSE s

\* s.trim()
Trim(s) == TrimEnd(TrimStart(s))

(***************************************************************************)
(* String constants of the source                                          *)
(***************************************************************************)
top == <<"t", "o", "p">>

bottom == <<"b", "o", "t", "t", "o", "m">>

both == <<"b", "o", "t", "h">>

smooth == <<"s", "m", "o", "o", "t", "h">>

linear == <<"l", "i", "n", "e", "a", "r">>

easeInOut == <<"e", "a", "s", "e", "-", "i", "n", "-", "o", "u", "t">>

bouncy == <<"b", "o", "u", "n", "c", "y">>

gentle == <<"g", "e", "n", "t", "l", "e">>

falseLiteral == <<"f", "a", "l", "s", "e">>

auto == <<"a", "u", "t", "o">>

\* Names every object inherits from Object.prototype (a sample of them): a lookup
\* styles[name] finds the inherited member, a function, for these.
ObjectPrototypeNames ==
  { <<"c", "o", "n", "s", "t", "r", "u", "c", "t", "o", "r">>,
    <<"t", "o", "S", "t", "r", "i", "n", "g">>,
    <<"v", "a", "l", "u", "e", "O", "f">> }

(***************************************************************************)
(* The attribute store. getAttribute returns null for an absent attribute: *)
(* a value is [has |-> FALSE] for null, else [has |-> TRUE, s |-> string]. *)
(***************************************************************************)
Null == [has |-> FALSE, s |-> <<>>]

Str(s) == [has |-> TRUE, s |-> s]

observedAttributes(v) ==
  { "wave-color", "background-color", "height", "speed", "opacity-range",
    "wave-count", "animation-style", "position", "wave-height",
    "content-padding", "content-background-color" }
  \cup (IF v = "index" THEN {"responsive"} ELSE {})

\* every attribute name the model sets: the observed ones of both variants
AttributeNames == observedAttributes("index")

getAttribute(a, name) == a[name]

\* x || def, for x a string or null: null and the empty string are falsy
OrElse(x, def) == IF x.has /\ x.s # <<>> THEN x.s ELSE def

waveColor(a) == OrElse(getAttribute(a, "wave-color"), <<"#", "1", "A", "2", "3", "7", "E">>)

backgroundColor(a) == OrElse(getAttribute(a, "background-color"), <<"t", "r", "a", "n", "s", "p", "a", "r", "e", "n", "t">>)

height(a) == OrElse(getAttribute(a, "height"), <<>>)

speed(a) == parseFloat(OrElse(getAttribute(a, "speed"), <<"1">>))

opacityRange(a) ==
  LET range == OrElse(getAttribute(a, "opacity-range"), <<"0", ".", "3", ",", "0", ".", "9">>)
      parts == Split(range, ",")
  IN  [i \in 1..Len(parts) |-> parseFloat(Trim(parts[i]))]

waveCount(a) == parseInt(OrElse(getAttribute(a, "wave-count"), <<"4">>))

animationStyle(a) == OrElse(getAttribute(a, "animation-style"), smooth)

position(a) == OrElse(getAttribute(a, "position"), top)

waveHeight(a) == OrElse(getAttribute(a, "wave-height"), <<"1", "0", "0", "p", "x">>)

contentPadding(a) == OrElse(getAttribute(a, "content-padding"), <<"2", "0", "p", "x">>)

contentBackgroundColor(a) ==
  OrElse(getAttribute(a, "content-background-color"), waveColor(a))

\* a variant of responsive that is true only for the string "true"
responsiveOptIn(a) ==
  LET r == getAttribute(a, "responsive") IN r.has /\ r.s = <<"t", "r", "u", "e">>

responsive(a) ==
  LET r == getAttribute(a, "responsive") IN ~(r.has /\ r.s = falseLiteral)

(***************************************************************************)
(* Math.random. A stream is the sequence of values the next calls return:  *)
(* call number j (from 0) returns pat[(off + j) mod Len(pat)].             *)
(***************************************************************************)
Stream(pat) == [pat |-> pat, off |-> 0]

Draw(rand, j) == rand.pat[((rand.off + j) % Len(rand.pat)) + 1]

\* the stream left after n calls
Skip(rand, n) == [rand EXCEPT !.off = (@ + n) % Len(rand.pat)]

(***************************************************************************)
(* Parameter generation                                                    *)
(***************************************************************************)
\* the number of iterations of for (let i = 0; i < count; i++)
LoopCount(count) == IF IsFinite(count) /\ count.n > 0 THEN count.n ELSE 0

\* the length of Array.from({ length: count }): ToLength clamps NaN and negatives to 0
ArrayFromLength(count) == IF IsFinite(count) /\ count.n > 0 THEN count.n ELSE 0

\* the unit of a length: s.replace(/[0-9.]/g, '')
StripNumber(s) == SelectSeq(s, LAMBDA c : ~IsDigit(c) /\ c # ".")

\* a length the code builds from a number and a unit: `${value}${unit}`
Length(value, unit) == [value |-> value, unit |-> unit]

NoLength == Length(NaN, <<>>)

getResponsiveWaveHeight(a) ==
  IF ~responsive(a)
  THEN [isObject |-> FALSE, base |-> waveHeight(a), mobile |-> NoLength,
        tablet |-> NoLength, desktop |-> waveHeight(a)]
  ELSE LET baseHeight == parseFloat(waveHeight(a))
           unit       == StripNumber(waveHeight(a))
       IN  [isObject |-> TRUE,
            base    |-> waveHeight(a),
            mobile  |-> Length(MathMax(Mul(baseHeight, Fin(6, 10)), Num(40)), unit),
            tablet  |-> Length(MathMax(Mul(baseHeight, Fin(8, 10)), Num(60)), unit),
            desktop |-> waveHeight(a)]

\* a variant of durationOf that does not divide the jitter by the speed
durationOfUnscaledJitter(baseSpeed, i, r) ==
  MathMax(Div(Num(10), baseSpeed),
          Add(Div(Num(15 + i * 8), baseSpeed), Mul(Sub(r, Fin(1, 2)), Num(10))))

\* the duration of wave i (from 0), given the value r of Math.random()
durationOf(baseSpeed, i, r) ==
  MathMax(Div(Num(10), baseSpeed),
          Div(Add(Num(15 + i * 8), Mul(Sub(r, Fin(1, 2)), Num(10))), baseSpeed))

durationsOf(baseSpeed, count, rand) ==
  [k \in 1..LoopCount(count) |-> durationOf(baseSpeed, k - 1, Draw(rand, k - 1))]

getAnimationDurations(a, rand) == durationsOf(speed(a), waveCount(a), rand)

delaysOf(count, rand) ==
  [k \in 1..LoopCount(count) |-> Neg(Mul(Draw(rand, k - 1), Num(30)))]

getAnimationDelays(a, rand) == delaysOf(waveCount(a), rand)

opacitiesOf(minOpacity, step, count) ==
  [k \in 1..LoopCount(count) |-> Add(minOpacity, Mul(step, Num(k - 1)))]

\* a variant of opacitiesOfRange whose step divides by count
opacitiesOfRangeByCount(minOpacity, maxOpacity, count) ==
  opacitiesOf(minOpacity, Div(Sub(maxOpacity, minOpacity), count), count)

opacitiesOfRange(minOpacity, maxOpacity, count) ==
  opacitiesOf(minOpacity, Div(Sub(maxOpacity, minOpacity), Sub(count, Num(1))), count)

\* const [minOpacity, maxOpacity] = range: a missing second element is
\* undefined, NaN in arithmetic
destructureRange(range, count) ==
  opacitiesOfRange(range[1], IF Len(range) >= 2 THEN range[2] ELSE NaN, count)

getOpacities(a) == destructureRange(opacityRange(a), waveCount(a))

\* a value of the styles lookup: a timing string, or a function inherited from
\* Object.prototype (named by its property name)
TimingString(s) == [t |-> "string", s |-> s]

InheritedFunction(name) == [t |-> "function", s |-> name]

cubicSmooth == <<"c", "u", "b", "i", "c", "-", "b", "e", "z", "i", "e", "r", "(", ".", "4", ",", "0", ",", ".", "2", ",", "1", ")">>

cubicBouncy == <<"c", "u", "b", "i", "c", "-", "b", "e", "z", "i", "e", "r", "(", ".", "6", "8", ",", "-", "0", ".", "5", "5", ",", ".", "2", "6", "5", ",", "1", ".", "5", "5", ")">>

cubicGentle == <<"c", "u", "b", "i", "c", "-", "b", "e", "z", "i", "e", "r", "(", ".", "2", "5", ",", ".", "4", "6", ",", ".", "4", "5", ",", ".", "9", "4", ")">>

\* styles[key]: [found |-> FALSE] stands for undefined
stylesLookup(key) ==
  IF key = smooth THEN [found |-> TRUE, v |-> TimingString(cubicSmooth)]
  ELSE IF key = linear THEN [found |-> TRUE, v |-> TimingString(linear)]
  ELSE IF key = easeInOut THEN [found |-> TRUE, v |-> TimingString(easeInOut)]
  ELSE IF key = bouncy THEN [found |-> TRUE, v |-> TimingString(cubicBouncy)]
  ELSE IF key = gentle THEN [found |-> TRUE, v |-> TimingString(cubicGentle)]
  ELSE IF key \in ObjectPrototypeNames
       THEN [found |-> TRUE, v |-> InheritedFunction(key)]
  ELSE [found |-> FALSE, v |-> TimingString(<<>>)]

getEasing(a) ==
  LET hit == stylesLookup(animationStyle(a))
  IN  IF hit.found THEN hit.v ELSE stylesLookup(smooth).v

(***************************************************************************)
(* Markup composition. The markup and style strings are kept as records of *)
(* the values the templates interpolate; the fixed text between them is    *)
(* the same in every render and is left out.                               *)
(***************************************************************************)
\* Intermediate values of the code are passed on as parameters (each const of
\* the source is a parameter of the operator that continues the function).

\* the viewBox and the wave path of a section (src/src/index.ts: the constants
\* of the template)
indexGeometry ==
  [viewBox   |-> <<Num(0), Num(24), Num(150), Num(28)>>,
   pathStart |-> Num(320), baseline |-> Num(44), amplitude |-> Num(18),
   closeV    |-> Num(44), closeH |-> Num(704)]

\* (src/test.ts: derived from wave-height)
geometryOf(viewBoxWidth, viewBoxHeight, waveBaseline, waveAmplitude) ==
  [viewBox   |-> <<Num(0), Num(0), viewBoxWidth, viewBoxHeight>>,
   pathStart |-> Mul(viewBoxWidth, Fin(213, 100)),
   baseline  |-> waveBaseline, amplitude |-> waveAmplitude,
   closeV    |-> Sub(viewBoxHeight, waveBaseline),
   closeH    |-> Mul(viewBoxWidth, Fin(469, 100))]

geometryOfHeight(viewBoxHeight) ==
  geometryOf(MathMax(Num(100), Mul(viewBoxHeight, Fin(375, 100))),
             viewBoxHeight,
             Mul(viewBoxHeight, Fin(7, 10)),
             MathMax(Num(8), Mul(viewBoxHeight, Fin(25, 100))))

testGeometry(a) ==
  geometryOfHeight(MathMax(Num(20), Mul(parseFloat(waveHeight(a)), Fin(3, 10))))

sectionGeometry(a, v) == IF v = "index" THEN indexGeometry ELSE testGeometry(a)

\* the <use> element of wave i (from 0), in a section of geometry g; jx and jy
\* are its two values of Math.random() - 0.5
waveElementAt(v, g, i, jx, jy) ==
  IF v = "index"
  THEN [x |-> Add(Num(48), Mul(jx, Num(20))),
        y |-> Add(Num(i * 2), Mul(jy, Num(4)))]
  ELSE [x |-> Add(Mul(g.viewBox[3], Fin(32, 100)),
                  Mul(jx, Mul(g.viewBox[3], Fin(13, 100)))),
        y |-> Add(Mul(Num(i), Mul(g.viewBox[4], Fin(25, 1000))),
                  Mul(jy, Mul(g.viewBox[4], Fin(5, 100))))]

\* rand is the stream at the element's first call of Math.random
waveElement(v, g, i, rand) ==
  waveElementAt(v, g, i, Sub(Draw(rand, 0), Fin(1, 2)), Sub(Draw(rand, 1), Fin(1, 2)))

sectionClass(isBottom) == IF isBottom THEN "bottom-waves" ELSE "top-waves"

\* the style rule of wave k (from 1)
waveStyle(isBottom, k, fill, opacity, duration, easing, delay) ==
  [section   |-> sectionClass(isBottom),
   nthChild  |-> k,
   fill      |-> fill,
   opacity   |-> opacity,
   animation |-> ((k - 1) % 4) + 1,
   duration  |-> duration,
   easing    |-> easing,
   delay     |-> delay]

\* the section's markup and styles from the generated parameters; rand is the
\* stream at the first call of Math.random for the <use> elements
composeSection(v, isBottom, len, g, fill, easing, durations, delays, opacities, rand) ==
  [html   |-> <<[class    |-> sectionClass(isBottom),
                 rotated  |-> isBottom,
                 geometry |-> g,
                 uses     |-> [k \in 1..len |->
                                 waveElement(v, g, k - 1, Skip(rand, 2 * (k - 1)))]]>>,
   styles |-> [k \in 1..len |->
                 waveStyle(isBottom, k, fill, opacities[k], durations[k], easing, delays[k])],
   calls  |-> 2 * len]

\* n is the number of calls of Math.random each of the two generators makes
createWaveSectionOf(a, v, isBottom, rand, n) ==
  [composeSection(v, isBottom, ArrayFromLength(waveCount(a)), sectionGeometry(a, v),
                  waveColor(a), getEasing(a),
                  getAnimationDurations(a, rand),
                  getAnimationDelays(a, Skip(rand, n)),
                  getOpacities(a),
                  Skip(rand, 2 * n))
   EXCEPT !.calls = @ + 2 * n]

\* rand is the stream at the section's first call of Math.random
createWaveSection(a, v, isBottom, rand) ==
  createWaveSectionOf(a, v, isBottom, rand, LoopCount(waveCount(a)))

NoSection == [html |-> <<>>, styles |-> <<>>, calls |-> 0]

\* the content section: a <slot> in a div
contentSectionMarkup ==
  [class |-> "content-section", rotated |-> FALSE, geometry |-> indexGeometry,
   uses |-> <<>>]

\* the replacement of one match of /(\d+)/g
scaledMatch(m, factor, floor) ==
  [c |-> "", n |-> MathMax(Mul(parseInt(m), factor), floor)]

\* s.replace(/(\d+)/g, m => Math.max(parseInt(m) * factor, floor).toString()):
\* the characters of s, each maximal run of digits replaced by a number
RECURSIVE ScalePadding(_, _, _)
ScalePadding(s, factor, floor) ==
  IF s = <<>> THEN <<>>
  ELSE IF IsDigit(Head(s))
       THEN <<scaledMatch(SubSeq(s, 1, DigitRun(s)), factor, floor)>>
            \o ScalePadding(Drop(s, DigitRun(s)), factor, floor)
  ELSE <<[c |-> Head(s), n |-> NaN]>> \o ScalePadding(Tail(s), factor, floor)

\* the breakpoint-scoped override blocks of src/src/index.ts
breakpointBlocks(padding, responsiveHeights) ==
  << [media   |-> "max-width: 768px",
      height  |-> responsiveHeights.mobile,
      padding |-> ScalePadding(padding, Fin(7, 10), Num(10))],
     [media   |-> "min-width: 769px and max-width: 1024px",
      height  |-> responsiveHeights.tablet,
      padding |-> <<>>],
     [media   |-> "max-width: 480px",
      height  |-> responsiveHeights.mobile,
      padding |-> ScalePadding(padding, Fin(5, 10), Num(8))] >>

responsiveBlocksOf(a, v, responsiveHeights) ==
  IF v = "index" /\ responsive(a) /\ responsiveHeights.isObject
  THEN breakpointBlocks(contentPadding(a), responsiveHeights)
  ELSE <<>>

responsiveBlocks(a, v) == responsiveBlocksOf(a, v, getResponsiveWaveHeight(a))

\* the height of .wave-section
waveSectionHeightOf(a, v, responsiveHeights) ==
  IF v = "index"
  THEN (IF ~responsiveHeights.isObject
        THEN responsiveHeights.base ELSE responsiveHeights.desktop)
  ELSE waveHeight(a)

waveSectionHeight(a, v) == waveSectionHeightOf(a, v, getResponsiveWaveHeight(a))

\* the template of render(), filled in
template(a, v, pos, topWaves, bottomWaves) ==
  [style |->
     <<[background        |-> backgroundColor(a),
        containerHeight   |-> IF pos = both THEN auto ELSE height(a),
        minHeight         |-> IF pos = both THEN "auto" ELSE "100px",
        waveSectionHeight |-> waveSectionHeight(a, v),
        contentPadding    |-> contentPadding(a),
        contentBackground |-> contentBackgroundColor(a),
        responsive        |-> responsiveBlocks(a, v),
        topStyles         |-> topWaves.styles,
        bottomStyles      |-> bottomWaves.styles]>>,
   container |->
     <<topWaves.html
       \o (IF pos = both THEN <<contentSectionMarkup>> ELSE <<>>)
       \o bottomWaves.html>>]

\* a variant of renderBottom that makes the bottom section for "bottom" only
renderBottomOnly(a, v, rand, pos, topWaves) ==
  template(a, v, pos, topWaves,
           IF pos = bottom
           THEN createWaveSection(a, v, TRUE, Skip(rand, topWaves.calls))
           ELSE NoSection)

renderBottom(a, v, rand, pos, topWaves) ==
  template(a, v, pos, topWaves,
           IF pos = bottom \/ pos = both
           THEN createWaveSection(a, v, TRUE, Skip(rand, topWaves.calls))
           ELSE NoSection)

renderTop(a, v, rand, pos) ==
  renderBottom(a, v, rand, pos,
               IF pos = top \/ pos = both
               THEN createWaveSection(a, v, FALSE, rand)
               ELSE NoSection)

\* the innerHTML render() assigns, for the attributes a, the variant v and
\* the stream rand of Math.random
Rendered(a, v, rand) == renderTop(a, v, rand, position(a))

\* the shadow root the constructor attaches: no content
EmptyRoot == [style |-> <<>>, container |-> <<>>]

(***************************************************************************)
(* Bounds and input sets                                                   *)
(***************************************************************************)
\* the element carries at most this many attributes at a time
MaxAttributes == 1

\* a stream of Math.random repeats with this period
StreamPeriod == 2

\* values Math.random returns, all in [0, 1)
RandVals == {Num(0), Fin(9, 10)}

\* the values the host sets each attribute to
AttrValues(name) ==
  CASE name = "wave-color"       -> { <<"r", "e", "d">> }
    [] name = "background-color" -> { <<"n", "a", "v", "y">> }
    [] name = "height"           -> { <<"5", "0", "v", "h">> }
    [] name = "speed"            -> { <<"0", ".", "5">> }
    [] name = "opacity-range"    -> { <<"0", ".", "2", ",", "0", ".", "8">> }
    [] name = "wave-count"       -> { <<"2">> }
    [] name = "animation-style"  -> { linear }
    [] name = "position"         -> { top, bottom, both, <<"l", "e", "f", "t">> }
    [] name = "wave-height"      -> { <<"5", "0", "p", "x">> }
    [] name = "content-padding"  -> { <<"3", "0", "p", "x">> }
    [] name = "content-background-color" -> { <<"t", "e", "a", "l">> }
    [] name = "responsive"       -> { falseLiteral, <<"t", "r", "u", "e">> }

NoAttributes == [name \in AttributeNames |-> Null]

Present(a) == {name \in AttributeNames : a[name].has}

\* the streams a render can meet: the stub's constant when Math.random is
\* stubbed, else any stream of the period
Streams(s) ==
  IF s.has THEN {Stream(<<s.v>>)}
  ELSE {Stream(p) : p \in [1..StreamPeriod -> RandVals]}

NoStub == [has |-> FALSE, v |-> Num(0)]

NoCall == [fn |-> "none", nums |-> <<>>, val |-> TimingString(<<>>), rand |-> Stream(<<Num(0)>>)]

(***************************************************************************)
(* The element's lifecycle                                                 *)
(***************************************************************************)
\* this.shadowRoot after the constructor ran attachShadow: always an object
shadowRootAttached == TRUE

\* the state after customElements.define and the element's construction
Init ==
  /\ variant \in {"index", "test"}
  /\ attrs = NoAttributes
  /\ connected = FALSE
  /\ shadow = EmptyRoot
  /\ stub = NoStub
  /\ call = NoCall

\* a variant of render that appends to innerHTML
renderAppend(a, rand) ==
  shadow' = [style     |-> shadow.style \o Rendered(a, variant, rand).style,
             container |-> shadow.container \o Rendered(a, variant, rand).container]

\* render(): the shadow root's innerHTML is replaced
render(a, rand) == shadow' = Rendered(a, variant, rand)

\* the host attaches the element to a document
connectedCallback ==
  /\ ~connected
  /\ connected' = TRUE
  /\ \E rand \in Streams(stub) : render(attrs, rand)
  /\ UNCHANGED <<variant, attrs, stub, call>>

\* a variant of attributeChangedCallback that renders the attributes as they
\* were before the change
attributeChangedCallbackBefore(a) ==
  \E rand \in Streams(stub) : render(attrs, rand)

\* attributeChangedCallback(), on the attributes a
attributeChangedCallback(a) ==
  IF shadowRootAttached
  THEN \E rand \in Streams(stub) : render(a, rand)
  ELSE UNCHANGED shadow

\* the host's notification after attribute name changed: only observed
\* attributes are notified
notify(name, a) ==
  IF name \in observedAttributes(variant)
  THEN attributeChangedCallback(a)
  ELSE UNCHANGED shadow

\* element.setAttribute(name, value); the host notifies also when the value
\* is the one the attribute already has
setAttribute(name, value) ==
  /\ attrs' = [attrs EXCEPT ![name] = Str(value)]
  /\ Cardinality(Present(attrs')) <= MaxAttributes
  /\ notify(name, attrs')
  /\ UNCHANGED <<variant, connected, stub, call>>

\* element.removeAttribute(name)
removeAttribute(name) ==
  /\ attrs[name].has
  /\ attrs' = [attrs EXCEPT ![name] = Null]
  /\ notify(name, attrs')
  /\ UNCHANGED <<variant, connected, stub, call>>

\* a test replaces Math.random by a function returning r
stubRandom(r) ==
  /\ stub' = [has |-> TRUE, v |-> r]
  /\ UNCHANGED <<variant, attrs, connected, shadow, call>>

\* the test restores Math.random
restoreRandom ==
  /\ stub.has
  /\ stub' = NoStub
  /\ UNCHANGED <<variant, attrs, connected, shadow, call>>

Next ==
  \/ connectedCallback
  \/ \E name \in AttributeNames : \E value \in AttrValues(name) : setAttribute(name, value)
  \/ \E name \in AttributeNames : removeAttribute(name)
  \/ \E r \in RandVals : stubRandom(r)
  \/ restoreRandom

Spec == Init /\ [][Next]_vars

(***************************************************************************)
(* The parameter generators called on their own, as a unit test calls      *)
(* them: the element carries the attributes of one group (the opacity      *)
(* inputs, the duration inputs or the easing input) and a method is        *)
(* called; call holds the method's name, its result and the stream of      *)
(* Math.random it ran with.                                                *)
(***************************************************************************)
GenWaveCounts == { <<"1">>, <<"2">>, <<"3">>, <<"0">>, <<"-", "1">>, <<"m", "a", "n", "y">> }

GenOpacityRanges == { <<"0", ".", "2", ",", "0", ".", "8">>, <<"0", ".", "9", ",", "0", ".", "3">>, <<"0", ".", "5", ",", "0", ".", "5">>, <<"0", ",", " ", "1">>, <<"0", ".", "5">> }

GenSpeeds == { <<"2">>, <<"0", ".", "5">>, <<"3">>, <<"0">>, <<"-", "1">>, <<"f", "a", "s", "t">> }

GenAnimationStyles ==
  { <<>>, smooth, linear, easeInOut, bouncy, gentle,
    <<"c", "o", "n", "s", "t", "r", "u", "c", "t", "o", "r">>, <<"t", "o", "S", "t", "r", "i", "n", "g">>, <<"n", "o", "n", "e", "x", "i", "s", "t", "e", "n", "t">> }

\* values of Math.random, all in [0, 1)
GenRandVals == {Num(0), Fin(1, 2), Fin(99, 100)}

OrNull(values) == {Null} \cup {Str(s) : s \in values}

GenAttrs ==
  {[NoAttributes EXCEPT !["wave-count"] = c, !["opacity-range"] = r] :
     c \in OrNull(GenWaveCounts), r \in OrNull(GenOpacityRanges)}
  \cup
  {[NoAttributes EXCEPT !["wave-count"] = c, !["speed"] = s] :
     c \in OrNull(GenWaveCounts), s \in OrNull(GenSpeeds)}
  \cup
  {[NoAttributes EXCEPT !["animation-style"] = e] : e \in OrNull(GenAnimationStyles)}

\* every outcome of the n calls of Math.random a generator makes
GenStreams(n) ==
  {Stream(p) : p \in [1..(IF n = 0 THEN 1 ELSE n) -> GenRandVals]}

InitGen ==
  /\ variant \in {"index", "test"}
  /\ attrs \in GenAttrs
  /\ connected = FALSE
  /\ shadow = EmptyRoot
  /\ stub = NoStub
  /\ call = NoCall

\* a method is called on a fresh element and returns
Returned(fn, nums, val, rand) ==
  /\ call = NoCall
  /\ call' = [fn |-> fn, nums |-> nums, val |-> val, rand |-> rand]
  /\ UNCHANGED <<variant, attrs, connected, shadow, stub>>

callGetOpacities ==
  Returned("getOpacities", getOpacities(attrs), NoCall.val, NoCall.rand)

callGetAnimationDurations ==
  \E rand \in GenStreams(LoopCount(waveCount(attrs))) :
    Returned("getAnimationDurations", getAnimationDurations(attrs, rand), NoCall.val, rand)

callGetAnimationDelays ==
  \E rand \in GenStreams(LoopCount(waveCount(attrs))) :
    Returned("getAnimationDelays", getAnimationDelays(attrs, rand), NoCall.val, rand)

callGetEasing ==
  Returned("getEasing", <<>>, getEasing(attrs), NoCall.rand)

NextGen ==
  \/ callGetOpacities
  \/ callGetAnimationDurations
  \/ callGetAnimationDelays
  \/ callGetEasing

SpecGen == InitGen /\ [][NextGen]_vars

(***************************************************************************)
(* Properties of the parameter generators (under SpecGen)                  *)
(***************************************************************************)
DocumentedStyles == {smooth, linear, easeInOut, bouncy, gentle}

\* the timing string documented for each style name
DocumentedEasing(name) ==
  CASE name = smooth    -> cubicSmooth
    [] name = linear    -> linear
    [] name = easeInOut -> easeInOut
    [] name = bouncy    -> cubicBouncy
    [] name = gentle    -> cubicGentle

\* C4: getEasing is total over the animation-style attribute: each of the five
\* documented names yields its own non-empty timing string, and every other
\* value of the attribute (absent, empty, any other string, the names of
\* Object.prototype included) yields the timing string of smooth.
C4_EasingTotal ==
  call.fn = "getEasing" =>
    LET raw == getAttribute(attrs, "animation-style")
    IN  IF raw.has /\ raw.s \in DocumentedStyles
        THEN /\ call.val = TimingString(DocumentedEasing(raw.s))
             /\ call.val.s # <<>>
             /\ \A other \in DocumentedStyles \ {raw.s} :
                  DocumentedEasing(other) # call.val.s
        ELSE call.val = TimingString(DocumentedEasing(smooth))

\* the opacity-range attribute holds two numbers
NumericRange(a) ==
  /\ Len(opacityRange(a)) = 2
  /\ IsFinite(opacityRange(a)[1])
  /\ IsFinite(opacityRange(a)[2])

\* C5: with wave-count = 1 and a numeric opacity-range, getOpacities returns
\* one value and that value is a number, not NaN.
C5_SingleWaveOpacity ==
  (/\ call.fn = "getOpacities"
   /\ getAttribute(attrs, "wave-count") = Str(<<"1">>)
   /\ NumericRange(attrs))
  => /\ Len(call.nums) = 1
     /\ IsFinite(call.nums[1])

\* getOpacities returned for a wave-count n >= 2 and a numeric opacity-range
OpacityCase ==
  /\ call.fn = "getOpacities"
  /\ IsFinite(waveCount(attrs))
  /\ waveCount(attrs).n >= 2
  /\ NumericRange(attrs)

\* element i (from 0) of the interpolation: min + i * (max - min) / (n - 1)
Interpolated(min, max, n, i) ==
  Add(min, Div(Mul(Num(i), Sub(max, min)), Num(n - 1)))

\* the values are exactly the n interpolated ones, from min to max
OpacityValues ==
  LET n   == waveCount(attrs).n
      min == opacityRange(attrs)[1]
      max == opacityRange(attrs)[2]
  IN  /\ Len(call.nums) = n
      /\ \A k \in 1..n : call.nums[k] = Interpolated(min, max, n, k - 1)
      /\ call.nums[1] = min
      /\ call.nums[n] = max

NonDecreasing(seq) == \A k \in 1..(Len(seq) - 1) : Leq(seq[k], seq[k + 1])

NonIncreasing(seq) == \A k \in 1..(Len(seq) - 1) : Leq(seq[k + 1], seq[k])

\* C6 as stated: for every n >= 2 and every numeric opacity-range (min, max)
\* getOpacities returns the n interpolated values, first min and last max, and
\* the sequence is non-decreasing.
C6_OpacityNonDecreasing ==
  OpacityCase => (OpacityValues /\ NonDecreasing(call.nums))

\* C6, amended: for every n >= 2 and every numeric opacity-range (min, max)
\* getOpacities returns the n interpolated values, first min and last max; the
\* sequence is non-decreasing when min <= max and non-increasing when
\* min >= max.
C6_OpacityInterpolation ==
  OpacityCase =>
    /\ OpacityValues
    /\ Leq(opacityRange(attrs)[1], opacityRange(attrs)[2]) => NonDecreasing(call.nums)
    /\ Leq(opacityRange(attrs)[2], opacityRange(attrs)[1]) => NonIncreasing(call.nums)

\* C6 witness: getOpacities returned three values for a range given with its
\* larger bound first
C6_Witness ==
  /\ OpacityCase
  /\ waveCount(attrs).n = 3
  /\ Lt(opacityRange(attrs)[2], opacityRange(attrs)[1])
  /\ Len(call.nums) = 3

\* getAnimationDurations returned for a speed > 0
DurationCase ==
  /\ call.fn = "getAnimationDurations"
  /\ Lt(Num(0), speed(attrs))

\* the jitter of the call number i (from 0) of Math.random: (r - 0.5) * 10
Jitter(i) == Sub(Mul(Num(10), Draw(call.rand, i)), Num(5))

\* every value is at least 10/speed and is max(10/speed, (15 + 8i + jitter)/speed)
\* with jitter in [-5, 5)
DurationValues ==
  \A k \in 1..Len(call.nums) :
    /\ Leq(Div(Num(10), speed(attrs)), call.nums[k])
    /\ Leq(Num(-5), Jitter(k - 1)) /\ Lt(Jitter(k - 1), Num(5))
    /\ call.nums[k] =
         MathMax(Div(Num(10), speed(attrs)),
                 Div(Add(Num(15 + 8 * (k - 1)), Jitter(k - 1)), speed(attrs)))

IsRendered == shadow # EmptyRoot

\* the children of the container, in order
Sections == IF IsRendered THEN shadow.container[1] ELSE <<>>

\* their classes, in order
Classes == [i \in 1..Len(Sections) |-> Sections[i].class]

HasSection(class) == \E i \in 1..Len(Sections) : Sections[i].class = class

\* the streams of Math.random a render can have run with
AnyStream == {Stream(p) : p \in [1..StreamPeriod -> RandVals]}

\* C1: once connectedCallback has run, after any sequence of attribute changes
\* the shadow root holds the result of one full run of render on the current
\* attribute values: the wave sections are those the current position
\* selects, each holds waveCount references with one style rule for each, and
\* nothing of an earlier configuration is left.
C1_RenderedIsCurrent ==
  connected =>
    /\ IsRendered
    /\ HasSection("top-waves") <=> position(attrs) \in {top, both}
    /\ HasSection("bottom-waves") <=> position(attrs) \in {bottom, both}
    /\ \A i \in 1..Len(Sections) :
         Sections[i].class # "content-section"
           => Num(Len(Sections[i].uses)) = waveCount(attrs)
    /\ Num(Len(shadow.style[1].topStyles)) =
         (IF HasSection("top-waves") THEN waveCount(attrs) ELSE Num(0))
    /\ Num(Len(shadow.style[1].bottomStyles)) =
         (IF HasSection("bottom-waves") THEN waveCount(attrs) ELSE Num(0))
    /\ \E rand \in AnyStream : shadow = Rendered(attrs, variant, rand)

\* C1 witness: the mounted element shows both sections with two waves each
\* after its attributes were changed
C1_Witness ==
  /\ connected
  /\ getAttribute(attrs, "wave-count") = Str(<<"2">>)
  /\ HasSection("top-waves")
  /\ Len(shadow.style[1].topStyles) = 2

\* C2: render composes the sections by position: both gives a top wave
\* section, the content section and a bottom wave section, in that order; top
\* or no position attribute gives only the top wave section; bottom gives only
\* the bottom wave section.
C2_SectionsByPosition ==
  connected =>
    LET raw == getAttribute(attrs, "position")
    IN  /\ raw = Str(both)
          => Classes = <<"top-waves", "content-section", "bottom-waves">>
        /\ (raw = Str(top) \/ ~raw.has) => Classes = <<"top-waves">>
        /\ raw = Str(bottom) => Classes = <<"bottom-waves">>

\* C2 witness: mounted with position="both", the three sections are there
C2_Witness ==
  /\ connected
  /\ getAttribute(attrs, "position") = Str(both)
  /\ Len(Classes) = 3

\* C3: a position other than top, bottom and both renders as top does: one
\* top wave section and no content section.
C3_UnknownPositionIsTop ==
  (/\ connected
   /\ getAttribute(attrs, "position").has
   /\ getAttribute(attrs, "position").s \notin {top, bottom, both})
  => Classes = <<"top-waves">>

\* a step that calls render
RenderStep ==
  \/ connectedCallback
  \/ \E name \in observedAttributes(variant) :
       \/ \E value \in AttrValues(name) : setAttribute(name, value)
       \/ removeAttribute(name)

\* the shadow root holds what render gives for the current attributes with
\* Math.random fixed to the stub's value
RenderedWithStub ==
  /\ stub.has
  /\ shadow = Rendered(attrs, variant, Stream(<<stub.v>>))

\* C8: with the attributes unchanged and Math.random fixed to return the same
\* value, a render that follows a render leaves the shadow root as it was.
C8_RenderIdempotent ==
  [][(attrs' = attrs /\ stub' = stub /\ RenderedWithStub /\ RenderStep)
       => shadow' = shadow]_vars

\* C8 witness: mounted, with both sections rendered under a stubbed
\* Math.random, where setting position to "both" again renders once more
C8_Witness ==
  /\ connected
  /\ RenderedWithStub
  /\ getAttribute(attrs, "position") = Str(both)
  /\ Len(Classes) = 3

\* the media queries of the breakpoint blocks in the style output
Breakpoints ==
  IF IsRendered
  THEN [i \in 1..Len(shadow.style[1].responsive) |-> shadow.style[1].responsive[i].media]
  ELSE <<>>

\* C9: in src/src/index.ts the style output holds the three breakpoint blocks
\* (mobile, tablet, small mobile) exactly when the responsive attribute is not
\* the string "false".
C9_ResponsiveBlocks ==
  (connected /\ variant = "index") =>
    IF getAttribute(attrs, "responsive") = Str(falseLiteral)
    THEN Breakpoints = <<>>
    ELSE Breakpoints = <<"max-width: 768px",
                         "min-width: 769px and max-width: 1024px",
                         "max-width: 480px">>

\* C9 witness: mounted with responsive="false", no breakpoint block
C9_Witness ==
  /\ connected
  /\ variant = "index"
  /\ getAttribute(attrs, "responsive") = Str(falseLiteral)
  /\ IsRendered
  /\ Breakpoints = <<>>

\* C10: the shadow root stays empty until connectedCallback has run.
C10_EmptyUntilMounted == ~connected => shadow = EmptyRoot

\* the heights of .wave-section in the style output: the base rule's and the
\* mobile and tablet breakpoint blocks'
RenderedHeights ==
  [desktop |-> shadow.style[1].waveSectionHeight,
   mobile  |-> shadow.style[1].responsive[1].height,
   tablet  |-> shadow.style[1].responsive[2].height]

\* the element is mounted in src/src/index.ts with responsive enabled and a
\* wave-height that starts with a number
NumericResponsive ==
  /\ connected
  /\ variant = "index"
  /\ responsive(attrs)
  /\ IsFinite(parseFloat(waveHeight(attrs)))

\* C11: in src/src/index.ts with responsive enabled and a numeric wave-height,
\* the rendered heights are desktop = base, mobile = max(0.6*base, 40) and
\* tablet = max(0.8*base, 60) in the unit of the base, and the overrides
\* reduce the height: mobile <= tablet <= desktop.
C11_BreakpointHeightsReduce ==
  NumericResponsive =>
    LET base == parseFloat(waveHeight(attrs))
        unit == StripNumber(waveHeight(attrs))
    IN  /\ RenderedHeights.desktop = waveHeight(attrs)
        /\ RenderedHeights.mobile = Length(MathMax(Mul(base, Fin(6, 10)), Num(40)), unit)
        /\ RenderedHeights.tablet = Length(MathMax(Mul(base, Fin(8, 10)), Num(60)), unit)
        /\ Leq(RenderedHeights.mobile.value, RenderedHeights.tablet.value)
        /\ Leq(RenderedHeights.tablet.value, base)

====
